---- MODULE Spec2Model ----
(***************************************************************************)
(* Model of the Hokusai link scraper (src/main.py, HokusaiLinkScraper) and *)
(* of the metadata pass (src/download_images.py).                          *)
(*                                                                         *)
(* Strings are sequences of tokens: a URL such as                          *)
(*   https://artsandculture.google.com/asset/123                           *)
(* is <<"https:", "/", "/", "artsandculture.google.com", "/", "asset",     *)
(*      "/", "123">>, and Python's  pat in url  is contiguous containment  *)
(* of the token sequence pat.  The tokens are cut so that every pattern    *)
(* the code searches for is a whole number of tokens.                      *)
(***************************************************************************)
EXTENDS Integers, Sequences, FiniteSets, TLC

VARIABLES
    pc,                 \* position of the session inside start_scraping
    page,               \* the document under test (index into Pages)
    loaded,             \* number of link elements the document has rendered so far
    container,          \* the container handle returned by the locator
    scraped_links,      \* self.scraped_links
    fb_cursor,          \* index i of the fallback selector loop of find_collection_container
    buttons,            \* len(navigation_buttons) handed to navigate_with_buttons
    button_index,       \* button_index of the for loop (1-based; 0 outside the loop)
    total_clicks,       \* total_clicks of the current button
    clicks_without_new_content, \* stagnation counter of the current button
    broke,              \* the while loop of the current button was left by break
    container_width,    \* scrollWidth read by fallback_scroll_method
    current_scroll,     \* current_scroll of fallback_scroll_method
    sweep_i,            \* loop counter of the current technique of scrape_all_links
    outcome,            \* "running", "completed" (try body ended) or "error" (except branch)
    saved,              \* the output files save_results wrote: <<>> or one entry
    cleaned,            \* number of calls of cleanup
    in_url,             \* argument of is_valid_painting_link (validation runs)
    verdict,            \* its result: "none" before the call, "accept" or "reject"
    announced,          \* what main printed after start_scraping: "none", "success", "interrupted"
    item_links,         \* data['links'] read by the metadata pass (download_images.py:21)
    index,              \* index of the item loop of the metadata pass (0 before the loop)
    rows,               \* the rows the metadata pass wrote to the CSV file, in order
    hist                \* observations about the run, used only by the properties

vars == <<pc, page, loaded, container, scraped_links, fb_cursor, buttons,
          button_index, total_clicks, clicks_without_new_content, broke,
          container_width, current_scroll, sweep_i, outcome, saved, cleaned,
          in_url, verdict, announced, item_links, index, rows, hist>>

-----------------------------------------------------------------------------
(* Sequences *)

Range(f) == {f[i] : i \in DOMAIN f}

IsPrefix(a, b) == Len(a) <= Len(b) /\ SubSeq(b, 1, Len(a)) = a

-----------------------------------------------------------------------------
(* Strings and URLs *)

TargetHost == "artsandculture.google.com"
OtherHost == "other-site.example"

\* self.base_url (main.py:34)
base_url == <<"https:", "/", "/", TargetHost>>

\* self.target_url (main.py:35)
target_url == base_url \o <<"/", "entity", "/", "hokusai", "/", "m0bwf4", "?", "categoryid=artist">>

\* Python's None and str values: an optional string
None == [some |-> FALSE, val |-> <<>>]
Str(s) == [some |-> TRUE, val |-> s]

\* pat in s
Contains(s, pat) ==
    \E i \in 1..(Len(s) - Len(pat) + 1) : SubSeq(s, i, i + Len(pat) - 1) = pat

\* s.startswith('/')
StartsWithSlash(s) == Len(s) >= 1 /\ s[1] = "/"

\* urllib.parse.urljoin(base, url) for a url that starts with '/': a
\* network-path reference (//host/...) keeps only the scheme of the base,
\* an absolute path replaces the path of the base (the base has none).
urljoin(base, url) ==
    IF Len(url) >= 2 /\ url[2] = "/" THEN <<base[1]>> \o url ELSE base \o url

ItemMarkers == { <<"/", "asset", "/">>, <<"/", "artwork", "/">> }

invalid_patterns == { <<"/", "search">>, <<"/", "explore">>, <<"/", "story">>,
                      <<"/", "exhibit">>, <<"/", "theme">> }

\* 'artsandculture.google.com' not in url (main.py:698)
FromOtherSite(url) == ~Contains(url, <<TargetHost>>)

\* is_valid_painting_link(url), url an optional string (main.py:688-714)
is_valid_painting_link(u) ==
    IF ~u.some \/ u.val = <<>> THEN FALSE
    ELSE LET url == IF StartsWithSlash(u.val) THEN urljoin(base_url, u.val) ELSE u.val
         IN  IF FromOtherSite(url) THEN FALSE
             ELSE IF ~(\E k \in ItemMarkers : Contains(url, k)) THEN FALSE
             ELSE IF Contains(url, <<"/", "entity", "/", "hokusai">>)
                     /\ Contains(url, <<"categoryid=artist">>) THEN FALSE
             ELSE IF \E p \in invalid_patterns : Contains(url, p) THEN FALSE
             ELSE TRUE

-----------------------------------------------------------------------------
(* What the specification calls the origin of a reference *)

Schemes == {"https:", "http:"}

IsAbsolute(s) == Len(s) >= 4 /\ s[1] \in Schemes /\ s[2] = "/" /\ s[3] = "/"

\* the reference resolved against the base origin (RFC 3986 resolution)
Resolve(s) ==
    IF IsAbsolute(s) THEN s
    ELSE IF Len(s) >= 2 /\ s[1] = "/" /\ s[2] = "/" THEN <<base_url[1]>> \o s
    ELSE IF StartsWithSlash(s) THEN base_url \o s
    ELSE base_url \o <<"/">> \o s

\* scheme and host of an absolute URL
Origin(s) == <<s[1], s[4]>>

BaseOrigin == Origin(base_url)

\* the validation rule as the specification words it
SpecValid(u) ==
    /\ u.some
    /\ u.val # <<>>
    /\ Origin(Resolve(u.val)) = BaseOrigin
    /\ \E k \in ItemMarkers : Contains(Resolve(u.val), k)
    /\ ~(Contains(Resolve(u.val), <<"/", "entity", "/", "hokusai">>)
         /\ Contains(Resolve(u.val), <<"categoryid=artist">>))
    /\ ~(\E p \in invalid_patterns : Contains(Resolve(u.val), p))

-----------------------------------------------------------------------------
(* Inputs of the validation runs *)

UrlPrefixes == { <<>>, base_url, <<"https:", "/", "/", OtherHost>>,
                 <<"/", "/", OtherHost>> }

UrlPaths == { <<"/", "asset", "/", "123">>, <<"/", "asset", "/", "9">>,
              <<"/", "artwork", "/", "7">>, <<"/", "search">>,
              <<"/", "entity", "/", "hokusai", "/", "m0bwf4">>,
              <<"/", "asset", "/", "5", "/", "story">>,
              <<"/", "entity", "/", "hokusai", "/", "asset", "/", "1">> }

UrlQueries == { <<>>, <<"?", "x=1">>, <<"?", "ref=", TargetHost>>,
                <<"?", "categoryid=artist">> }

UrlInputs ==
    { Str(p \o q \o r) : p \in UrlPrefixes, q \in UrlPaths, r \in UrlQueries }
    \cup { None, Str(<<>>) }

-----------------------------------------------------------------------------
(* The document: link elements, rendered lazily in document order *)

\* an <a> element: its href and data-href attributes, the quoted literals of
\* its onclick attribute, the structural selectors (by number) it matches,
\* whether it lies inside the collection region, whether reading its
\* attributes can raise
Anchor(h, d, o, m, c, s) ==
    [href |-> h, data_href |-> d, onclick |-> o, marks |-> m, inner |-> c, stale |-> s]

U_abs123 == base_url \o <<"/", "asset", "/", "123">>
U_rel123 == <<"/", "asset", "/", "123">>
U_foreign == <<"https:", "/", "/", OtherHost, "/", "asset", "/", "9", "?", "ref=", TargetHost>>
U_search == base_url \o <<"/", "search", "?", "x=1">>
U_relart7 == <<"/", "artwork", "/", "7">>

\* a page mixing item links with links the validator must sort out
TrickyAnchors ==
    << Anchor(Str(U_abs123), None, {}, {}, TRUE, FALSE),
       Anchor(Str(U_search), None, {}, {4}, FALSE, FALSE),
       Anchor(Str(U_abs123), Str(U_rel123), {}, {4, 7}, TRUE, TRUE),
       Anchor(Str(U_foreign), Str(<<>>), {}, {9}, TRUE, FALSE),
       Anchor(None, None, {U_relart7, <<"x">>}, {6}, TRUE, TRUE) >>

\* number of items of the page that trickles one plain item link at a time
NBulk == 12

BulkAnchors ==
    [i \in 1..NBulk |->
        Anchor(Str(base_url \o <<"/", "asset", "/", ToString(i)>>), None, {}, {}, TRUE, FALSE)]

\* a page: its anchors, how many are rendered at load, whether the exact
\* XPath of find_collection_container exists, the fallback selectors (by
\* position in fallback_selectors) that match an element with the anchors
\* that element contains, and the <div>s (in document order, with the
\* anchors they contain) among which the last-resort query chooses
Pages ==
    << [anchors |-> TrickyAnchors, init |-> 3, exact |-> FALSE,
        fallbacks |-> (5 :> {1, 3, 4, 5}),
        divs |-> << {1}, {1, 3, 4}, {3, 4, 5}, {1, 3} >>],
       [anchors |-> BulkAnchors, init |-> 1, exact |-> TRUE,
        fallbacks |-> (1 :> (1..NBulk)),
        divs |-> << 1..NBulk, 1..NBulk >>],
       [anchors |-> << >>, init |-> 0, exact |-> FALSE,
        fallbacks |-> << >>,
        divs |-> << >>] >>

Doc == Pages[page]

NAnchors == Len(Doc.anchors)

\* container handles
NoContainer == [kind |-> "none", idx |-> 0]
ExactContainer == [kind |-> "exact", idx |-> 0]
FallbackContainer(i) == [kind |-> "fallback", idx |-> i]
DivContainer(k) == [kind |-> "div", idx |-> k]
Body == [kind |-> "body", idx |-> 0]

\* the anchors below a container handle (all of them, rendered or not)
Below(c) ==
    CASE c.kind = "exact" -> {i \in 1..NAnchors : Doc.anchors[i].inner}
      [] c.kind = "fallback" -> Doc.fallbacks[c.idx]
      [] c.kind = "div" -> Doc.divs[c.idx]
      [] c.kind = "body" -> 1..NAnchors
      [] OTHER -> {}

\* container.find_elements(By.XPATH, ".//a...") sees the rendered ones, n
\* anchors being rendered
Visible(c, n) == Below(c) \cap (1..n)

\* what an advance action may make the document render: nothing or one more anchor
Reveal(n) == {n} \cup (IF n < NAnchors THEN {n + 1} ELSE {})

-----------------------------------------------------------------------------
(* scrape_visible_links *)

\* len(link_selectors) (main.py:614-635)
NSelectors == 11

HasAttr(a, pat) == a.some /\ Contains(a.val, pat)

\* whether the XPath of link_selectors[r] selects anchor e
Selects(r, e) ==
    CASE r = 1 -> HasAttr(e.href, <<"/", "asset", "/">>)
      [] r = 2 -> HasAttr(e.href, <<"/", "artwork", "/">>)
      [] r = 3 -> HasAttr(e.href, <<TargetHost>>)
      [] r = 5 -> HasAttr(e.data_href, <<"asset">>)
      [] r = 11 -> e.href.some
      [] OTHER -> r \in e.marks

\* re.findall(r'["\']([^"\']*(?:asset|artwork)[^"\']*)["\']', onclick)
onclick_urls(e) ==
    {s \in e.onclick : Contains(s, <<"asset">>) \/ Contains(s, <<"artwork">>)}

\* potential_urls of one anchor (main.py:651-657)
potential_urls(e) == {e.href, e.data_href} \cup {Str(s) : s \in onclick_urls(e)}

\* set.add written as a symmetric difference
AddToggle(links, url) == IF url \in links THEN links \ {url} ELSE links \cup {url}

\* self.scraped_links.add(url)
Add(links, url) == links \cup {url}

RECURSIVE AddAll(_, _)
AddAll(links, urls) ==
    IF urls = {} THEN links
    ELSE LET u == CHOOSE x \in urls : TRUE
         IN  AddAll(Add(links, u), urls \ {u})

\* the urls one anchor contributes: `if url and self.is_valid_painting_link(url)`
Accepted(e) ==
    {u.val : u \in {v \in potential_urls(e) : v.some /\ v.val # <<>> /\ is_valid_painting_link(v)}}

\* Accepted and Selects, tabulated per page and anchor
AcceptedOf ==
    [p \in DOMAIN Pages |-> [i \in DOMAIN Pages[p].anchors |-> Accepted(Pages[p].anchors[i])]]

SelectorsOf ==
    [p \in DOMAIN Pages |->
        [i \in DOMAIN Pages[p].anchors |->
            {r \in 1..NSelectors : Selects(r, Pages[p].anchors[i])}]]

\* scrape_visible_links rebuilding the set from what this pass finds
scrape_rebuilding(links, seen, badSel, badAnchor) ==
    LET read == {i \in seen \ badAnchor : SelectorsOf[page][i] \ badSel # {}}
    IN  UNION {AcceptedOf[page][i] : i \in read}

\* a pass that goes down the selectors and stops at the first one that
\* yields a link, the way a cascade of fallbacks would
RECURSIVE scrape_first_productive_from(_, _, _, _, _)
scrape_first_productive_from(r, links, seen, badSel, badAnchor) ==
    LET yield == UNION {AcceptedOf[page][i] :
                          i \in {j \in seen \ badAnchor : r \in SelectorsOf[page][j]}}
    IN  IF r > NSelectors THEN links
        ELSE IF r \notin badSel /\ yield # {} THEN AddAll(links, yield)
        ELSE scrape_first_productive_from(r + 1, links, seen, badSel, badAnchor)

scrape_first_productive(links, seen, badSel, badAnchor) ==
    scrape_first_productive_from(1, links, seen, badSel, badAnchor)

\* One pass of scrape_visible_links over the anchors `seen`, where
\* find_elements raises for the selectors in badSel and reading the
\* attributes raises for the anchors in badAnchor; the result is the new
\* value of self.scraped_links.
scrape_visible_links(links, seen, badSel, badAnchor) ==
    LET read == {i \in seen \ badAnchor : SelectorsOf[page][i] \ badSel # {}}
    IN  AddAll(links, UNION {AcceptedOf[page][i] : i \in read})

\* the selectors whose find_elements may raise during a pass
FlakySelectors == {6, 11}

\* the faults one pass may meet: none, one selector, or one anchor that
\* has gone stale
Faults(seen) ==
    {<<{}, {}>>} \cup {<<{r}, {}>> : r \in FlakySelectors}
      \cup {<<{}, {i}>> : i \in {j \in seen : Doc.anchors[j].stale}}

-----------------------------------------------------------------------------
(* Bounds of the inputs *)

\* most navigation buttons find_all_navigation_buttons returns
MaxButtons == 2

\* most elements the query of the focus technique returns
MaxFocusable == 6

\* the scrollWidth values fallback_scroll_method may read: 0, 100, ..., 100 * MaxWidth
MaxWidth == 12

Widths == {100 * k : k \in 0..MaxWidth}

\* clientWidth of the container
VisibleWidth == 300

\* saturation of the count of advance actions of one strategy run
CountCap == 51

-----------------------------------------------------------------------------
(* Program constants *)

\* len(fallback_selectors) (main.py:132-153)
NFallbacks == 13

\* max_clicks_per_button (main.py:420)
max_clicks_per_button == 50

\* the stagnation threshold of the while condition (main.py:428)
StagnationLimit == 5

\* the failure tolerance of the except branch (main.py:461)
FailureLimit == 3

\* scroll_increment (main.py:509)
scroll_increment == 200

\* range(20) of the arrow-key loop (main.py:542)
KeySteps == 20

\* range(10) of the wheel loop (main.py:551)
WheelSteps == 10

\* the slice clickable_elements[:5] (main.py:571)
FocusLimit == 5

\* the fractions of scrollWidth the last technique scrolls to, in percent
\* (main.py:586)
positions == <<0, 25, 50, 75, 100, 50, 0>>

\* len(positions) (main.py:586)
NPositions == 7

-----------------------------------------------------------------------------
(* The session: start_scraping *)

HistInit ==
    [order |-> << >>,           \* the pagination techniques started, in order
     harvested |-> FALSE,       \* the initial harvest of start_scraping ran
     advances |-> 0,            \* advance actions executed by the strategy run in progress
     streak |-> 0,              \* consecutive advances on this button that added no link
     exact |-> "none",          \* how the exact XPath lookup ended
     found |-> NoContainer,     \* the element of the first locator query that found one
     queries |-> 0,             \* locator queries consulted (exact path and fallbacks)
     lastFault |-> FALSE,       \* a lookup of find_any_link_container raised
     locatorRaised |-> FALSE,   \* find_collection_container raised
     passes |-> 0,              \* harvest passes of a repeated-harvest run
     lastPass |-> <<{}, {}>>,   \* the faults of its latest pass
     repeated |-> FALSE,        \* its latest pass met the faults of the one before
     loadFailed |-> FALSE,      \* load_page raised
     returned |-> 0,            \* calls of the try block of start_scraping that returned
     unharvested |-> 0,         \* advance actions executed since the latest harvest pass
     settle |-> 0,              \* the sleep after the latest advance action, in tenths of a second
     ctlDisabled |-> FALSE,     \* the control of the click loop is disabled at present
     barren |-> 0,              \* consecutive scroll moves after which the harvest added no link
     scrollEnd |-> "none",      \* how the scroll loop just left ended: "range" or "fault"
     sweepFault |-> "none",     \* the technique of the sweep that raised, until the final scrape
     focusable |-> 0,           \* len(clickable_elements[:5]) while the focus loop runs
     paused |-> FALSE,          \* the latest turn of the item loop ended with time.sleep(1)
     interruptedAt |-> "none",  \* the step at which an external interrupt arrived
     response |-> [kind |-> "none"]] \* what the metadata pass met for its latest item

SessionInit ==
    /\ pc = "load"
    /\ page \in 1..Len(Pages)
    /\ loaded = 0
    /\ container = NoContainer
    /\ scraped_links = {}
    /\ fb_cursor = 0
    /\ buttons = 0
    /\ button_index = 0
    /\ total_clicks = 0
    /\ clicks_without_new_content = 0
    /\ broke = FALSE
    /\ container_width = 0
    /\ current_scroll = 0
    /\ sweep_i = 0
    /\ outcome = "running"
    /\ saved = << >>
    /\ cleaned = 0
    /\ in_url = None
    /\ verdict = "none"
    /\ announced = "none"
    /\ item_links = << >>
    /\ index = 0
    /\ rows = << >>
    /\ hist = HistInit

Init == SessionInit

locals == <<fb_cursor, buttons, button_index, total_clicks,
            clicks_without_new_content, broke, container_width, current_scroll, sweep_i>>

validation == <<in_url, verdict>>

\* the metadata pass (download_images.py)
metadata_pass == <<item_links, index, rows>>

\* what no step of start_scraping touches
outside == <<in_url, verdict, announced, item_links, index, rows>>

\* an except branch that writes the output before it ends the session
RaisedSaving ==
    /\ pc' = "save"
    /\ outcome' = "error"

\* an exception reaches `except Exception` of start_scraping (main.py:85-88)
Raised ==
    /\ pc' = "cleanup"
    /\ outcome' = "error"

\* one call of scrape_visible_links(container) with n anchors rendered
Harvest(n) ==
    \E f \in Faults(Visible(container, n)) :
        scraped_links' = scrape_visible_links(scraped_links, Visible(container, n), f[1], f[2])

Count(h) == IF h.advances < CountCap THEN h.advances + 1 ELSE CountCap

\* load_page (main.py:90-107): driver.get raises, or the page loads
LoadPage ==
    /\ pc = "load"
    /\ \E ok \in BOOLEAN :
          IF ok THEN /\ pc' = "locate_exact"
                     /\ loaded' = Doc.init
                     /\ hist' = [hist EXCEPT !.returned = 1]
                     /\ UNCHANGED outcome
                ELSE /\ Raised
                     /\ hist' = [hist EXCEPT !.loadFailed = TRUE]
                     /\ UNCHANGED loaded
    /\ UNCHANGED <<page, container, scraped_links, locals, saved, cleaned, outside>>

\* find_collection_container, the exact XPath (main.py:120-129)
LocateExact ==
    /\ pc = "locate_exact"
    /\ \E r \in (IF Doc.exact THEN {"found"} ELSE {"notfound"}) \cup {"fault"} :
          /\ hist' = [hist EXCEPT !.exact = r, !.queries = 1,
                                  !.found = IF r = "found" THEN ExactContainer ELSE @,
                                  !.locatorRaised = (r = "fault"),
                                  !.returned = IF r = "found" THEN 2 ELSE @]
          /\ CASE r = "found" -> /\ container' = ExactContainer
                                 /\ pc' = "initial"
                                 /\ UNCHANGED <<fb_cursor, outcome>>
               [] r = "notfound" -> /\ pc' = "locate_fallback"
                                    /\ fb_cursor' = 1
                                    /\ UNCHANGED <<container, outcome>>
               [] OTHER -> /\ Raised
                           /\ UNCHANGED <<container, fb_cursor>>
    /\ UNCHANGED <<page, loaded, scraped_links, buttons, button_index, total_clicks,
                   clicks_without_new_content, broke, container_width, current_scroll,
                   sweep_i, saved, cleaned, outside>>

\* the fallback loop going on after a selector found an element
AfterFallbackFoundGoOn(i) == "locate_fallback"

\* where the fallback loop goes after selector i found an element: it returns it
AfterFallbackFound(i) == "initial"

\* find_collection_container, one turn of the fallback loop (main.py:155-174)
LocateFallback ==
    /\ pc = "locate_fallback"
    /\ \E r \in (IF fb_cursor \in DOMAIN Doc.fallbacks THEN {"found"} ELSE {"notfound"})
                  \cup {"fault"} :
          LET next == IF r = "found" THEN AfterFallbackFound(fb_cursor)
                      ELSE IF fb_cursor < NFallbacks THEN "locate_fallback"
                      ELSE "locate_last"
          IN  /\ hist' = [hist EXCEPT !.queries = @ + 1,
                             !.found = IF r = "found" /\ @ = NoContainer
                                       THEN FallbackContainer(fb_cursor) ELSE @,
                             !.returned = IF next = "initial" THEN 2 ELSE @]
              /\ container' = IF r = "found" THEN FallbackContainer(fb_cursor) ELSE container
              /\ pc' = IF next = "locate_fallback" /\ fb_cursor = NFallbacks
                       THEN "locate_last" ELSE next
              /\ fb_cursor' = IF next = "locate_fallback" /\ fb_cursor < NFallbacks
                              THEN fb_cursor + 1 ELSE fb_cursor
    /\ UNCHANGED <<page, loaded, scraped_links, buttons, button_index, total_clicks,
                   clicks_without_new_content, broke, container_width, current_scroll,
                   sweep_i, outcome, saved, cleaned, outside>>

\* len(element.find_elements(By.XPATH, ".//a[contains(@href, 'asset')]"))
AssetLinks(k, n) ==
    Cardinality({i \in Doc.divs[k] \cap (1..n) : HasAttr(Doc.anchors[i].href, <<"asset">>)})

\* a comparison that lets a later element with the same count take over
BetterOrEqual(count, max_links) == count >= max_links /\ count > 0

\* whether a new count replaces the best one so far (main.py:228)
Better(count, max_links) == count > max_links

\* the loop of find_any_link_container over elements_with_asset_links
\* (main.py:226-230): cands in document order, best = 0 stands for None
RECURSIVE BestOf(_, _, _, _)
BestOf(cands, n, best, max_links) ==
    IF cands = << >> THEN best
    ELSE LET k == Head(cands)
         IN  IF Better(AssetLinks(k, n), max_links)
             THEN BestOf(Tail(cands), n, k, AssetLinks(k, n))
             ELSE BestOf(Tail(cands), n, best, max_links)

\* "//div[.//a[contains(@href, 'asset')]]": the <div>s holding an asset link
RECURSIVE DivsWithAssetLinks(_, _)
DivsWithAssetLinks(k, n) ==
    IF k > Len(Doc.divs) THEN << >>
    ELSE (IF AssetLinks(k, n) > 0 THEN <<k>> ELSE << >>) \o DivsWithAssetLinks(k + 1, n)

\* find_any_link_container without the document body as its last answer
find_any_link_container_no_body(n) ==
    LET best == BestOf(DivsWithAssetLinks(1, n), n, 0, 0)
    IN  IF best # 0 THEN DivContainer(best) ELSE NoContainer

\* what find_any_link_container returns when no lookup raises (main.py:215-238)
find_any_link_container(n) ==
    LET best == BestOf(DivsWithAssetLinks(1, n), n, 0, 0)
    IN  IF best # 0 THEN DivContainer(best) ELSE Body

\* find_collection_container, the last resort (main.py:176-178, 213-242)
LocateLastResort ==
    /\ pc = "locate_last"
    /\ \E fault \in BOOLEAN :
          /\ hist' = [hist EXCEPT !.lastFault = fault, !.locatorRaised = fault,
                                  !.returned = IF fault THEN @ ELSE 2]
          /\ IF fault THEN /\ Raised
                           /\ UNCHANGED container
                      ELSE /\ container' = find_any_link_container(loaded)
                           /\ pc' = "initial"
                           /\ UNCHANGED outcome
    /\ UNCHANGED <<page, loaded, scraped_links, locals, saved, cleaned, outside>>

\* step 3 of start_scraping: scrape_visible_links(container) (main.py:72)
InitialHarvest ==
    /\ pc = "initial"
    /\ Harvest(loaded)
    /\ pc' = "discover"
    /\ hist' = [hist EXCEPT !.harvested = TRUE, !.returned = 3]
    /\ UNCHANGED <<page, loaded, container, locals, outcome, saved, cleaned, outside>>

\* scroll_and_load_content up to the choice of a strategy (main.py:244-280):
\* the lookup of the button container finds it, finds nothing (then
\* find_navigation_buttons returns a container or None) or raises, and
\* find_all_navigation_buttons returns n buttons
DiscoverControls ==
    /\ pc = "discover"
    /\ \E lookup \in {"found", "notfound", "fault"}, alt \in BOOLEAN, n \in 0..MaxButtons :
          IF lookup # "fault" /\ (lookup = "found" \/ alt) /\ n > 0
          THEN /\ pc' = "nav_start"
               /\ buttons' = n
          ELSE /\ pc' = "scroll_start"
               /\ UNCHANGED buttons
    /\ UNCHANGED <<page, loaded, container, scraped_links, fb_cursor, button_index,
                   total_clicks, clicks_without_new_content, broke, container_width,
                   current_scroll, sweep_i, outcome, saved, cleaned, outside, hist>>

\* a navigation control as is_button_disabled reads it: its disabled and
\* aria-disabled attributes (<<>> for none), the words of its class
\* attribute, its opacity in tenths
Control(d, a, c, o) == [disabled |-> d, aria_disabled |-> a, class |-> c, opacity |-> o]

\* the states a control may be found in
ControlStates ==
    { Control(<< >>, << >>, {"nav", "arrow"}, 10),
      Control(<< >>, <<"false">>, {"nav"}, 5),
      Control(<<"true">>, << >>, {"nav"}, 10),
      Control(<< >>, <<"true">>, {"nav"}, 10),
      Control(<< >>, << >>, {"nav", "inactive"}, 10),
      Control(<< >>, << >>, {"nav"}, 4) }

\* is_button_disabled(button) when no read raises (main.py:470-494)
is_button_disabled(c) ==
    \/ c.disabled # << >>
    \/ c.aria_disabled = <<"true">>
    \/ c.class \cap {"disabled", "inactive", "hidden"} # {}
    \/ c.opacity < 5

\* what is_button_disabled may answer for a control
DisabledAnswers == {is_button_disabled(c) : c \in ControlStates}

\* navigate_with_buttons before the loop: the initial scrape (main.py:413-417)
NavStart ==
    /\ pc = "nav_start"
    /\ Harvest(loaded)
    /\ pc' = "buttons"
    /\ button_index' = 1
    /\ total_clicks' = 0
    /\ clicks_without_new_content' = 0
    /\ broke' = FALSE
    /\ \E d \in DisabledAnswers :
          hist' = [hist EXCEPT !.order = Append(@, "controls"), !.advances = 0, !.streak = 0,
                               !.ctlDisabled = d]
    /\ UNCHANGED <<page, loaded, container, fb_cursor, buttons, container_width,
                   current_scroll, sweep_i, outcome, saved, cleaned, outside>>

\* the while condition without the cap on clicks
ClickLoopNoCap(total, without) == without < StagnationLimit

\* the while condition (main.py:428)
ClickLoopContinues(total, without) ==
    total < max_clicks_per_button /\ without < StagnationLimit

\* the stagnation counter never reset
AfterClickNoReset(without, new_links) == without + 1

\* the stagnation counter after a click whose harvest added new_links links
\* (main.py:445-451)
AfterClick(without, new_links) == IF new_links > 0 THEN 0 ELSE without + 1

\* one turn of the while loop (main.py:428-462): the click raises, or it is
\* executed, the document renders, the container is harvested and the
\* button is found disabled or not
Click ==
    /\ pc = "buttons"
    /\ ~broke
    /\ ClickLoopContinues(total_clicks, clicks_without_new_content)
    /\ \E ok \in BOOLEAN :
          IF ok
          THEN \E n \in Reveal(loaded), d \in DisabledAnswers :
                  /\ loaded' = n
                  /\ Harvest(n)
                  /\ total_clicks' = total_clicks + 1
                  /\ clicks_without_new_content' =
                        AfterClick(clicks_without_new_content,
                                   Cardinality(scraped_links') - Cardinality(scraped_links))
                  /\ broke' = d
                  /\ hist' = [hist EXCEPT !.advances = Count(hist),
                                 !.streak = IF scraped_links' # scraped_links THEN 0 ELSE @ + 1,
                                 !.unharvested = 0, !.settle = 25,
                                 !.ctlDisabled = d]
          ELSE /\ clicks_without_new_content' = clicks_without_new_content + 1
               /\ broke' = (clicks_without_new_content' >= FailureLimit)
               /\ hist' = [hist EXCEPT !.streak = @ + 1]
               /\ UNCHANGED <<loaded, scraped_links, total_clicks>>
    /\ UNCHANGED <<pc, page, container, fb_cursor, buttons, button_index, container_width,
                   current_scroll, sweep_i, outcome, saved, cleaned, outside>>

\* falling through to the scroll method after the buttons
AfterControlsFallThrough == "scroll_start"

\* where scroll_and_load_content goes when navigate_with_buttons has
\* returned: it returns too, and start_scraping calls scrape_all_links
\* (main.py:271-272, 78)
AfterControls == "sweep_begin"

\* the while loop of one button is over: the for loop takes the next button
\* or navigate_with_buttons returns (main.py:422-468)
ButtonDone ==
    /\ pc = "buttons"
    /\ broke \/ ~ClickLoopContinues(total_clicks, clicks_without_new_content)
    /\ IF button_index < buttons
       THEN /\ button_index' = button_index + 1
            /\ UNCHANGED <<pc, buttons>>
            /\ total_clicks' = 0
            /\ clicks_without_new_content' = 0
            /\ broke' = FALSE
            /\ \E d \in DisabledAnswers :
                  hist' = [hist EXCEPT !.streak = 0, !.ctlDisabled = d]
       ELSE /\ pc' = AfterControls
            /\ hist' = [hist EXCEPT !.streak = 0, !.advances = 0, !.returned = 4,
                                    !.ctlDisabled = FALSE]
            /\ UNCHANGED <<buttons, button_index, total_clicks,
                           clicks_without_new_content, broke>>
    /\ UNCHANGED <<page, loaded, container, scraped_links, fb_cursor, container_width,
                   current_scroll, sweep_i, outcome, saved, cleaned, outside>>

\* fallback_scroll_method before the loop (main.py:500-510): reading the
\* widths raises, or the container is wider than what it shows, or not
ScrollStart ==
    /\ pc = "scroll_start"
    /\ \E fault \in BOOLEAN, w \in Widths :
          IF ~fault /\ w > VisibleWidth
          THEN /\ pc' = "scroll"
               /\ container_width' = w
               /\ hist' = [hist EXCEPT !.order = Append(@, "scroll"), !.advances = 0]
          ELSE /\ pc' = "sweep_begin"
               /\ hist' = [hist EXCEPT !.order = Append(@, "scroll"), !.advances = 0,
                                       !.returned = 4]
               /\ UNCHANGED container_width
    /\ current_scroll' = 0
    /\ buttons' = 0
    /\ button_index' = 0
    /\ total_clicks' = 0
    /\ clicks_without_new_content' = 0
    /\ broke' = FALSE
    /\ UNCHANGED <<page, loaded, container, scraped_links, fb_cursor, sweep_i, outcome,
                   saved, cleaned, outside>>

\* a scroll loop that stops after 5 moves in a row without a new link
ScrollLoopStagnates(scroll, width) == scroll < width /\ hist.barren < StagnationLimit

\* the while condition (main.py:512)
ScrollLoopContinues(scroll, width) == scroll < width

\* one turn of the scroll loop (main.py:512-519): setting scrollLeft raises
\* (the except of main.py:521 ends the method), or the document renders and
\* the container is harvested
ScrollStep ==
    /\ pc = "scroll"
    /\ ScrollLoopContinues(current_scroll, container_width)
    /\ \E ok \in BOOLEAN :
          IF ok
          THEN \E n \in Reveal(loaded) :
                  /\ loaded' = n
                  /\ Harvest(n)
                  /\ current_scroll' = current_scroll + scroll_increment
                  /\ hist' = [hist EXCEPT !.advances = Count(hist),
                                          !.unharvested = 0, !.settle = 25,
                                          !.barren = IF scraped_links' # scraped_links
                                                     THEN 0 ELSE @ + 1]
                  /\ UNCHANGED <<pc, container_width>>
          ELSE /\ pc' = "sweep_begin"
               /\ current_scroll' = 0
               /\ container_width' = 0
               /\ hist' = [hist EXCEPT !.advances = 0, !.returned = 4, !.barren = 0,
                                       !.scrollEnd = "fault"]
               /\ UNCHANGED <<loaded, scraped_links>>
    /\ UNCHANGED <<page, container, fb_cursor, buttons, button_index, total_clicks,
                   clicks_without_new_content, broke, sweep_i, outcome, saved, cleaned,
                   outside>>

\* the scroll loop is over
ScrollDone ==
    /\ pc = "scroll"
    /\ ~ScrollLoopContinues(current_scroll, container_width)
    /\ pc' = "sweep_begin"
    /\ current_scroll' = 0
    /\ container_width' = 0
    /\ hist' = [hist EXCEPT !.advances = 0, !.returned = 4, !.barren = 0,
                            !.scrollEnd = "range"]
    /\ UNCHANGED <<page, loaded, container, scraped_links, fb_cursor, buttons, button_index,
                   total_clicks, clicks_without_new_content, broke, sweep_i, outcome,
                   saved, cleaned, outside>>

-----------------------------------------------------------------------------
(* scrape_all_links: the comprehensive sweep *)

sweepFrame == <<page, container, fb_cursor, buttons, button_index, total_clicks,
                clicks_without_new_content, broke, container_width, current_scroll,
                outcome, saved, cleaned, outside>>

\* a sweep in which every technique has a handler of its own, so that the
\* technique after the one that raised is the next to run
AfterTechniqueFaultNext(technique) ==
    CASE technique = "hover" -> "sweep_keys"
      [] technique = "keyboard" -> "sweep_wheel"
      [] technique = "wheel" -> "sweep_focus"
      [] OTHER -> "sweep_final"

\* where an exception raised by the hover, the arrow keys, the wheel events
\* or the positions goes: the one try of main.py:534 encloses all of them,
\* its except (main.py:593-594) logs and the final scrape follows
AfterTechniqueFault(technique) == "sweep_final"

\* move_to_element and perform (main.py:534-539)
SweepBegin ==
    /\ pc = "sweep_begin"
    /\ \E ok \in BOOLEAN :
          /\ pc' = IF ok THEN "sweep_keys" ELSE AfterTechniqueFault("hover")
          /\ hist' = [hist EXCEPT !.scrollEnd = "none",
                                  !.sweepFault = IF ok THEN @ ELSE "hover"]
    /\ sweep_i' = 0
    /\ buttons' = 0
    /\ button_index' = 0
    /\ total_clicks' = 0
    /\ clicks_without_new_content' = 0
    /\ broke' = FALSE
    /\ UNCHANGED <<page, loaded, container, scraped_links, fb_cursor, container_width,
                   current_scroll, outcome, saved, cleaned, outside>>

\* an arrow-key loop whose body harvests
KeyStepHarvestsAlways == TRUE

\* whether the body of the arrow-key loop calls scrape_visible_links
\* (main.py:542-545): it sends the key and sleeps
KeyStepHarvests == FALSE

\* one turn of the arrow-key loop (main.py:542-545)
KeyStep ==
    /\ pc = "sweep_keys"
    /\ sweep_i < KeySteps
    /\ \E ok \in BOOLEAN :
          IF ok THEN /\ loaded' \in Reveal(loaded)
                     /\ sweep_i' = sweep_i + 1
                     /\ IF KeyStepHarvests THEN Harvest(loaded')
                                            ELSE UNCHANGED scraped_links
                     /\ hist' = [hist EXCEPT
                            !.order = IF sweep_i = 0 THEN Append(@, "keyboard") ELSE @,
                            !.unharvested = IF KeyStepHarvests THEN 0 ELSE @ + 1,
                            !.settle = 5]
                     /\ UNCHANGED pc
                ELSE /\ pc' = AfterTechniqueFault("keyboard")
                     /\ sweep_i' = 0
                     /\ hist' = [hist EXCEPT
                            !.order = IF sweep_i = 0 THEN Append(@, "keyboard") ELSE @,
                            !.sweepFault = "keyboard"]
                     /\ UNCHANGED <<loaded, scraped_links>>
    /\ UNCHANGED sweepFrame

\* the scrape after the arrow keys (main.py:547-548)
KeysHarvest ==
    /\ pc = "sweep_keys"
    /\ sweep_i = KeySteps
    /\ Harvest(loaded)
    /\ pc' = "sweep_wheel"
    /\ sweep_i' = 0
    /\ hist' = [hist EXCEPT !.unharvested = 0]
    /\ UNCHANGED loaded
    /\ UNCHANGED sweepFrame

\* one turn of the wheel loop (main.py:551-560)
WheelStep ==
    /\ pc = "sweep_wheel"
    /\ sweep_i < WheelSteps
    /\ \E ok \in BOOLEAN :
          IF ok THEN /\ loaded' \in Reveal(loaded)
                     /\ sweep_i' = sweep_i + 1
                     /\ hist' = [hist EXCEPT
                            !.order = IF sweep_i = 0 THEN Append(@, "wheel") ELSE @,
                            !.unharvested = @ + 1, !.settle = 8]
                     /\ UNCHANGED pc
                ELSE /\ pc' = AfterTechniqueFault("wheel")
                     /\ sweep_i' = 0
                     /\ hist' = [hist EXCEPT
                            !.order = IF sweep_i = 0 THEN Append(@, "wheel") ELSE @,
                            !.sweepFault = "wheel"]
                     /\ UNCHANGED loaded
    /\ UNCHANGED scraped_links
    /\ UNCHANGED sweepFrame

\* the scrape after the wheel events (main.py:562-563)
WheelHarvest ==
    /\ pc = "sweep_wheel"
    /\ sweep_i = WheelSteps
    /\ Harvest(loaded)
    /\ pc' = "sweep_focus"
    /\ sweep_i' = 0
    /\ hist' = [hist EXCEPT !.unharvested = 0]
    /\ UNCHANGED loaded
    /\ UNCHANGED sweepFrame

\* a focus loop over every element found
focus_all(n) == n

\* len(clickable_elements[:5]) for a list of n elements (main.py:571)
focus_slice(n) == IF n < FocusLimit THEN n ELSE FocusLimit

\* method 3, the query (main.py:566-569): find_elements returns a list, or
\* raises into the except of main.py:579 and the positions follow
FocusElements ==
    /\ pc = "sweep_focus"
    /\ \E ok \in BOOLEAN :
          IF ok THEN \E n \in 0..MaxFocusable :
                        /\ pc' = "sweep_focusing"
                        /\ hist' = [hist EXCEPT !.focusable = focus_slice(n)]
                ELSE /\ pc' = "sweep_pos"
                     /\ UNCHANGED hist
    /\ sweep_i' = 0
    /\ UNCHANGED <<loaded, scraped_links>>
    /\ UNCHANGED sweepFrame

\* one turn of the focus loop (main.py:571-577): the script focuses the
\* element; the bare except passes over whatever is raised, an interrupt
\* that arrives inside the turn included
FocusStep ==
    /\ pc = "sweep_focusing"
    /\ sweep_i < hist.focusable
    /\ \E ok \in BOOLEAN :
          IF ok THEN loaded' \in Reveal(loaded) ELSE loaded' = loaded
    /\ sweep_i' = sweep_i + 1
    /\ UNCHANGED <<pc, scraped_links, hist>>
    /\ UNCHANGED sweepFrame

\* the focus loop is over (main.py:571, 582-586)
FocusDone ==
    /\ pc = "sweep_focusing"
    /\ sweep_i = hist.focusable
    /\ pc' = "sweep_pos"
    /\ sweep_i' = 0
    /\ hist' = [hist EXCEPT !.focusable = 0]
    /\ UNCHANGED <<loaded, scraped_links>>
    /\ UNCHANGED sweepFrame

\* one turn of the loop over positions (main.py:587-591)
PositionStep ==
    /\ pc = "sweep_pos"
    /\ sweep_i < NPositions
    /\ \E ok \in BOOLEAN :
          IF ok THEN \E n \in Reveal(loaded) :
                        /\ loaded' = n
                        /\ Harvest(n)
                        /\ sweep_i' = sweep_i + 1
                        /\ UNCHANGED <<pc, hist>>
                ELSE /\ pc' = AfterTechniqueFault("positions")
                     /\ sweep_i' = 0
                     /\ hist' = [hist EXCEPT !.sweepFault = "positions"]
                     /\ UNCHANGED <<loaded, scraped_links>>
    /\ UNCHANGED sweepFrame

\* the final scrape (main.py:596-597), after the positions or after a fault
FinalHarvest ==
    /\ \/ pc = "sweep_final"
       \/ pc = "sweep_pos" /\ sweep_i = NPositions
    /\ Harvest(loaded)
    /\ pc' = "save"
    /\ sweep_i' = 0
    /\ hist' = [hist EXCEPT !.returned = 5, !.unharvested = 0, !.sweepFault = "none"]
    /\ UNCHANGED loaded
    /\ UNCHANGED sweepFrame

-----------------------------------------------------------------------------
(* save_results and cleanup *)

\* the code points of the tokens other than numerals that a discovered link
\* can hold
WordChars ==
    ("https:" :> <<104, 116, 116, 112, 115, 58>>) @@
    ("/" :> <<47>>) @@
    ("?" :> <<63>>) @@
    ("ref=" :> <<114, 101, 102, 61>>) @@
    ("asset" :> <<97, 115, 115, 101, 116>>) @@
    ("artwork" :> <<97, 114, 116, 119, 111, 114, 107>>) @@
    (TargetHost :> <<97, 114, 116, 115, 97, 110, 100, 99, 117, 108, 116, 117, 114, 101, 46, 103, 111, 111, 103, 108, 101, 46, 99, 111, 109>>) @@
    (OtherHost :> <<111, 116, 104, 101, 114, 45, 115, 105, 116, 101, 46, 101, 120, 97, 109, 112, 108, 101>>)

\* the code points of the decimal numeral of n
RECURSIVE DecimalChars(_)
DecimalChars(n) ==
    IF n < 10 THEN <<48 + n>> ELSE DecimalChars(n \div 10) \o <<48 + (n % 10)>>

\* the code points of one token
Chars(t) ==
    IF t \in DOMAIN WordChars THEN WordChars[t]
    ELSE DecimalChars(CHOOSE n \in 0..999 : ToString(n) = t)

\* the code points of a string
RECURSIVE Text(_)
Text(u) == IF u = << >> THEN << >> ELSE Chars(Head(u)) \o Text(Tail(u))

\* every link a harvest can add, with its code points
TextOf ==
    [u \in UNION {UNION {AcceptedOf[p][i] : i \in DOMAIN Pages[p].anchors} : p \in DOMAIN Pages}
        |-> Text(u)]

\* a < b for Python strings: the order of the code points
StrLess(a, b) ==
    \E i \in 1..Len(TextOf[b]) :
        /\ \A j \in 1..(i - 1) : j <= Len(TextOf[a]) /\ TextOf[a][j] = TextOf[b][j]
        /\ (i > Len(TextOf[a]) \/ TextOf[a][i] < TextOf[b][i])

\* the list of a set of strings from the greatest down
RECURSIVE descending(_)
descending(S) ==
    IF S = {} THEN << >>
    ELSE LET m == CHOOSE x \in S : \A y \in S \ {x} : StrLess(y, x)
         IN  <<m>> \o descending(S \ {m})

\* sorted(list(S)) for a set of strings (main.py:719)
RECURSIVE sorted(_)
sorted(S) ==
    IF S = {} THEN << >>
    ELSE LET m == CHOOSE x \in S : \A y \in S \ {x} : StrLess(x, y)
         IN  <<m>> \o sorted(S \ {m})

\* the dictionary dumped to the JSON file (main.py:721-727, 734-735)
results(links_list) ==
    [total_links |-> Len(links_list), source_url |-> target_url, links |-> links_list]

\* the numbered lines written to the text file (main.py:743-744)
listing(links_list) == [i \in 1..Len(links_list) |-> <<i, links_list[i]>>]

\* save_results (main.py:716-748): the list is sorted and the JSON file is
\* written, then the text file; opening or writing either may raise
SaveResults ==
    /\ pc = "save"
    /\ \E r \in {"ok", "json_fault", "txt_fault"} :
          LET links_list == sorted(scraped_links)
          IN  CASE r = "ok" ->
                      /\ saved' = Append(saved, [json |-> <<results(links_list)>>,
                                                  txt |-> <<listing(links_list)>>])
                      /\ outcome' = "completed"
                      /\ pc' = "cleanup"
                      /\ hist' = [hist EXCEPT !.returned = 6]
                [] r = "txt_fault" ->
                      /\ saved' = Append(saved, [json |-> <<results(links_list)>>,
                                                  txt |-> << >>])
                      /\ Raised
                      /\ UNCHANGED hist
                [] OTHER ->
                      /\ Raised
                      /\ UNCHANGED <<saved, hist>>
    /\ UNCHANGED <<page, loaded, container, scraped_links, locals, cleaned, outside>>

\* cleanup (main.py:750-754), the finally branch of start_scraping
Cleanup ==
    /\ pc = "cleanup"
    /\ cleaned' = cleaned + 1
    /\ pc' = "done"
    /\ UNCHANGED <<page, loaded, container, scraped_links, locals, outcome, saved,
                   outside, hist>>

\* the steps of the try block of start_scraping (main.py:61-83)
TrySteps ==
    {"load", "locate_exact", "locate_fallback", "locate_last", "initial", "discover",
     "nav_start", "buttons", "scroll_start", "scroll", "sweep_begin", "sweep_keys",
     "sweep_wheel", "sweep_focus", "sweep_focusing", "sweep_pos", "sweep_final", "save"}

\* an interrupt handled like a fault of the session: the output is written
AfterInterruptSave == "save"

\* an interrupt that leaves start_scraping without its finally branch
AfterInterruptLeaves == "done"

\* where a KeyboardInterrupt raised inside the try block goes: it is not an
\* Exception, so the except branch is passed over and only the finally
\* branch runs (main.py:85-88)
AfterInterrupt == "cleanup"

\* an external interrupt (KeyboardInterrupt) arrives while a step of the try
\* block runs: the frames of the running methods are unwound; one that
\* arrives inside save_results finds none, one or both files written
Interrupt ==
    /\ pc \in TrySteps
    /\ saved' \in IF pc = "save"
                  THEN {saved,
                        Append(saved, [json |-> <<results(sorted(scraped_links))>>,
                                       txt |-> << >>]),
                        Append(saved, [json |-> <<results(sorted(scraped_links))>>,
                                       txt |-> <<listing(sorted(scraped_links))>>])}
                  ELSE {saved}
    /\ pc' = AfterInterrupt
    /\ outcome' = "interrupted"
    /\ fb_cursor' = 0
    /\ buttons' = 0
    /\ button_index' = 0
    /\ total_clicks' = 0
    /\ clicks_without_new_content' = 0
    /\ broke' = FALSE
    /\ container_width' = 0
    /\ current_scroll' = 0
    /\ sweep_i' = 0
    /\ hist' = [hist EXCEPT !.interruptedAt = pc, !.advances = 0, !.streak = 0,
                            !.unharvested = 0, !.settle = 0, !.ctlDisabled = FALSE,
                            !.barren = 0, !.scrollEnd = "none", !.sweepFault = "none",
                            !.focusable = 0]
    /\ UNCHANGED <<page, loaded, container, scraped_links, cleaned, outside>>

-----------------------------------------------------------------------------
(* main *)

\* what main prints once start_scraping is over (main.py:771-798): the
\* success banner when the call returned, the interruption notice when a
\* KeyboardInterrupt came out of it; start_scraping lets no Exception out
main_prints(how) == IF how = "interrupted" THEN "interrupted" ELSE "success"

MainReport ==
    /\ pc = "done"
    /\ announced' = main_prints(outcome)
    /\ pc' = "exit"
    /\ UNCHANGED <<page, loaded, container, scraped_links, locals, outcome, saved, cleaned,
                   in_url, verdict, metadata_pass, hist>>

Next ==
    \/ LoadPage
    \/ LocateExact
    \/ LocateFallback
    \/ LocateLastResort
    \/ InitialHarvest
    \/ DiscoverControls
    \/ NavStart
    \/ Click
    \/ ButtonDone
    \/ ScrollStart
    \/ ScrollStep
    \/ ScrollDone
    \/ SweepBegin
    \/ KeyStep
    \/ KeysHarvest
    \/ WheelStep
    \/ WheelHarvest
    \/ FocusElements
    \/ FocusStep
    \/ FocusDone
    \/ PositionStep
    \/ FinalHarvest
    \/ SaveResults
    \/ Cleanup
    \/ Interrupt
    \/ MainReport

Spec == Init /\ [][Next]_vars

\* the pages of the sessions whose termination is checked: the page that
\* mixes links and the empty page
FairPages == {1, 3}

FairInit == Init /\ page \in FairPages

\* The session is one sequential thread: while a step of it can run, one
\* does (the next statement is executed, or an interrupt is delivered).
FairSpec == FairInit /\ [][Next]_vars /\ WF_vars(Next)

-----------------------------------------------------------------------------
(* Runs that apply is_valid_painting_link to one reference *)

frame == <<page, loaded, container, scraped_links, locals, outcome, saved, cleaned>>

ValidationInit ==
    /\ pc = "validate"
    /\ page = 1
    /\ loaded = 0
    /\ container = NoContainer
    /\ scraped_links = {}
    /\ fb_cursor = 0
    /\ buttons = 0
    /\ button_index = 0
    /\ total_clicks = 0
    /\ clicks_without_new_content = 0
    /\ broke = FALSE
    /\ container_width = 0
    /\ current_scroll = 0
    /\ sweep_i = 0
    /\ outcome = "running"
    /\ saved = << >>
    /\ cleaned = 0
    /\ in_url \in UrlInputs
    /\ verdict = "none"
    /\ announced = "none"
    /\ item_links = << >>
    /\ index = 0
    /\ rows = << >>
    /\ hist = HistInit

Validate ==
    /\ pc = "validate"
    /\ verdict' = IF is_valid_painting_link(in_url) THEN "accept" ELSE "reject"
    /\ pc' = "validated"
    /\ UNCHANGED <<frame, in_url, announced, metadata_pass, hist>>

ValidationSpec == ValidationInit /\ [][Validate]_vars

-----------------------------------------------------------------------------
(* Runs that harvest one unchanging container again and again *)

\* number of passes of such a run
MaxPasses == 3

HarvestInit ==
    /\ pc = "pass"
    /\ page \in DOMAIN Pages
    /\ loaded \in 0..NAnchors
    /\ container \in {Body, ExactContainer}
    /\ scraped_links = {}
    /\ fb_cursor = 0
    /\ buttons = 0
    /\ button_index = 0
    /\ total_clicks = 0
    /\ clicks_without_new_content = 0
    /\ broke = FALSE
    /\ container_width = 0
    /\ current_scroll = 0
    /\ sweep_i = 0
    /\ outcome = "running"
    /\ saved = << >>
    /\ cleaned = 0
    /\ in_url = None
    /\ verdict = "none"
    /\ announced = "none"
    /\ item_links = << >>
    /\ index = 0
    /\ rows = << >>
    /\ hist = HistInit

HarvestPass ==
    /\ pc = "pass"
    /\ hist.passes < MaxPasses
    /\ \E f \in Faults(Visible(container, loaded)) :
          /\ scraped_links' =
                scrape_visible_links(scraped_links, Visible(container, loaded), f[1], f[2])
          /\ hist' = [hist EXCEPT !.passes = @ + 1, !.lastPass = f,
                                  !.repeated = (hist.passes >= 1 /\ f = hist.lastPass)]
    /\ UNCHANGED <<pc, page, loaded, container, locals, outcome, saved, cleaned, outside>>

HarvestSpec == HarvestInit /\ [][HarvestPass]_vars

-----------------------------------------------------------------------------
(* The metadata pass (src/download_images.py) *)

\* Text is a sequence of tokens; " " is white space and ":" the colon.

\* fieldnames (download_images.py:24-29)
fieldnames ==
    << <<"Index">>, <<"Image", " ", "Filename">>, <<"Title">>, <<"Creator">>,
       <<"Date", " ", "Created">>, <<"Physical", " ", "Dimensions">>, <<"Medium">>,
       <<"Object", " ", "Classification">>, <<"Full", " ", "Title">>,
       <<"Curatorial", " ", "Area">>, <<"Credit", " ", "Line">>, <<"Chronology">>,
       <<"Artwork", " ", "Accession", " ", "Number">>, <<"Page", " ", "URL">> >>

\* {key: '' for key in fieldnames} short of one key
record_short_of_a_key == [k \in Range(fieldnames) \ {<<"Chronology">>} |-> << >>]

\* {key: '' for key in fieldnames} (download_images.py:43, 93)
empty_record == [k \in Range(fieldnames) |-> << >>]

\* s.strip()
RECURSIVE lstrip(_)
lstrip(s) == IF s # << >> /\ Head(s) = " " THEN lstrip(Tail(s)) ELSE s

RECURSIVE rstrip(_)
rstrip(s) ==
    IF s # << >> /\ s[Len(s)] = " " THEN rstrip(SubSeq(s, 1, Len(s) - 1)) ELSE s

strip(s) == rstrip(lstrip(s))

\* s.split(':', 1) for a text that holds a colon
RECURSIVE split_colon(_, _)
split_colon(before, s) ==
    IF Head(s) = ":" THEN <<before, Tail(s)>>
    ELSE split_colon(Append(before, Head(s)), Tail(s))

\* the body of the loop over the <li> elements (download_images.py:72-82)
apply_entry(metadata, li_text) ==
    IF ":" \in Range(li_text)
    THEN LET kv == split_colon(<< >>, li_text)
             key == strip(kv[1])
             value == strip(kv[2])
         IN  IF key \in Range(fieldnames) THEN [metadata EXCEPT ![key] = value]
             ELSE metadata
    ELSE metadata

\* the loop over the <li> elements of one list, in document order
RECURSIVE apply_entries(_, _)
apply_entries(metadata, lis) ==
    IF lis = << >> THEN metadata
    ELSE apply_entries(apply_entry(metadata, Head(lis)), Tail(lis))

\* the first <ul> of the page
first_ul(ul_elements) == ul_elements[1]

\* ul_elements[-1] (download_images.py:68)
metadata_ul(ul_elements) == ul_elements[Len(ul_elements)]

\* f"{index:04d}"
Pad4(n) == [k \in 1..(4 - Len(DecimalChars(n))) |-> "0"] \o <<ToString(n)>>

\* filename_ext.split('=')[0]
RECURSIVE before_equals(_)
before_equals(s) ==
    IF s = << >> \/ Head(s) = "=" THEN << >> ELSE <<Head(s)>> \o before_equals(Tail(s))

\* image_filename (download_images.py:52-53), basename being
\* os.path.basename of the path of the og:image URL
image_filename(n, basename) ==
    LET filename_ext == IF basename # << >> THEN basename ELSE Pad4(n) \o <<".jpg">>
    IN  Pad4(n) \o <<"_">> \o before_equals(filename_ext) \o <<".jpg">>

\* the record of an item whose page was fetched (download_images.py:43-84);
\* a page is its og:image (<<>> or <<basename>>) and its <ul> elements, each
\* the texts of its <li> elements
extract(n, url, item_page) ==
    LET m0 == [empty_record EXCEPT ![<<"Index">>] = <<ToString(n)>>,
                                   ![<<"Page", " ", "URL">>] = url]
        m1 == IF item_page.image # << >>
              THEN [m0 EXCEPT ![<<"Image", " ", "Filename">>] =
                                  image_filename(n, item_page.image[1])]
              ELSE m0
    IN  IF item_page.uls # << >> THEN apply_entries(m1, metadata_ul(item_page.uls))
        ELSE m1

\* error_metadata (download_images.py:93-95)
error_metadata(n, url) ==
    [empty_record EXCEPT ![<<"Index">>] = <<ToString(n)>>, ![<<"Page", " ", "URL">>] = url]

\* texts of <li> elements
LiCreator == <<"Creator", ":", " ", "Hokusai">>
LiCreatorOther == <<"Creator", ":", "Someone", " ", "else">>
LiTitle == <<" ", "Title", " ", ":", " ", "Wave", ":", " ", "One", " ">>
LiDate == <<"Date", " ", "Created", ":", "1831">>
LiUnknown == <<"Location", ":", " ", "Tokyo">>
LiLower == <<"creator", ":", " ", "nobody">>
LiPlain == <<"Share", " ", "this", " ", "page">>
LiNoLabel == <<":", " ", "x">>
LiIndex == <<"Index", ":", " ", "99">>
LiMedium == <<"Medium", " ", ":", " ">>

ItemPage(img, blocks) == [image |-> img, uls |-> blocks]

\* the item pages of the runs
ItemPages ==
    { ItemPage(<< >>, << >>),
      ItemPage(<< <<"abc", "=", "w1200">> >>, << >>),
      ItemPage(<< <<"abc">> >>, << <<LiCreator>> >>),
      ItemPage(<< >>, << <<LiCreatorOther, LiDate>>, <<LiPlain>>, <<LiCreator, LiTitle>> >>),
      ItemPage(<< >>, << <<LiCreator, LiTitle>>, <<LiUnknown, LiLower, LiPlain, LiNoLabel>> >>),
      ItemPage(<< << >> >>, << <<LiDate>>, << >> >>),
      ItemPage(<< >>, << <<LiCreatorOther, LiCreator, LiMedium>> >>),
      ItemPage(<< >>, << <<LiTitle>>, <<LiIndex, LiDate>> >>) }

\* the links an input file may hold
ItemUrls == {U_abs123, U_rel123}

\* most links of an input file
MaxItems == 2

RECURSIVE SeqsUpTo(_, _)
SeqsUpTo(S, n) ==
    IF n = 0 THEN {<< >>}
    ELSE SeqsUpTo(S, n - 1) \cup {Append(q, x) : q \in {r \in SeqsUpTo(S, n - 1) : Len(r) = n - 1}, x \in S}

\* what processing one item may meet: requests.get or raise_for_status
\* raises (always so for a link without scheme), the page is fetched and
\* the download of its image raises, or nothing raises
Responses(url) ==
    {[kind |-> "fetch_fault"]}
      \cup (IF IsAbsolute(url)
            THEN {[kind |-> "ok", item_page |-> q] : q \in ItemPages}
                   \cup {[kind |-> "image_fault", item_page |-> q] :
                            q \in {x \in ItemPages : x.image # << >>}}
            ELSE {})

MetadataInit ==
    /\ pc = "items"
    /\ page = 1
    /\ loaded = 0
    /\ container = NoContainer
    /\ scraped_links = {}
    /\ fb_cursor = 0
    /\ buttons = 0
    /\ button_index = 0
    /\ total_clicks = 0
    /\ clicks_without_new_content = 0
    /\ broke = FALSE
    /\ container_width = 0
    /\ current_scroll = 0
    /\ sweep_i = 0
    /\ outcome = "running"
    /\ saved = << >>
    /\ cleaned = 0
    /\ in_url = None
    /\ verdict = "none"
    /\ announced = "none"
    /\ item_links \in SeqsUpTo(ItemUrls, MaxItems)
    /\ index = 0
    /\ rows = << >>
    /\ hist = HistInit

\* the item loop ending at the first failed item
AfterItemFaultStop == "passed"

\* where the loop goes after the except branch wrote the row of a failed
\* item (download_images.py:90-96): to the next item
AfterItemFault == "items"

\* one turn of the item loop (download_images.py:36-96); time.sleep(1) is
\* the last statement of the try block (download_images.py:88), the except
\* branch has none
ProcessItem ==
    /\ pc = "items"
    /\ index < Len(item_links)
    /\ index' = index + 1
    /\ \E resp \in Responses(item_links[index + 1]) :
          /\ hist' = [hist EXCEPT !.response = resp, !.paused = (resp.kind = "ok")]
          /\ IF resp.kind = "ok"
             THEN /\ rows' = Append(rows, extract(index + 1, item_links[index + 1],
                                                  resp.item_page))
                  /\ UNCHANGED pc
             ELSE /\ rows' = Append(rows, error_metadata(index + 1, item_links[index + 1]))
                  /\ pc' = AfterItemFault
    /\ UNCHANGED <<frame, validation, announced, item_links>>

\* the loop is over (download_images.py:98)
PassDone ==
    /\ pc = "items"
    /\ index = Len(item_links)
    /\ pc' = "passed"
    /\ UNCHANGED <<frame, validation, announced, metadata_pass, hist>>

MetadataSpec == MetadataInit /\ [][ProcessItem \/ PassDone]_vars

-----------------------------------------------------------------------------
(* Properties *)

\* C1: across every step of a session the discovered set only grows: every
\* link present before a step is still present after it.
C1_Monotone == [][scraped_links \subseteq scraped_links']_vars

\* C1 witness: a session that ran to its end over a set that grew more than once
C1_Witness ==
    pc = "done" /\ outcome = "completed" /\ Cardinality(scraped_links) >= 3

ClickVariant ==
    (max_clicks_per_button - total_clicks) * (StagnationLimit + 1)
      + (StagnationLimit - clicks_without_new_content)

C4_Stagnation ==
    [][ /\ (pc = "buttons" /\ total_clicks' = total_clicks + 1)
              => /\ clicks_without_new_content < StagnationLimit
                 /\ clicks_without_new_content' =
                       IF Cardinality(scraped_links') > Cardinality(scraped_links)
                       THEN 0 ELSE clicks_without_new_content + 1
        /\ (pc = "buttons" /\ clicks_without_new_content >= StagnationLimit)
              => (total_clicks' # total_clicks + 1 /\ hist'.streak = 0)
        /\ hist'.streak <= StagnationLimit
      ]_vars

\* C4 witness: a button whose counter was reset at least once and then reached 5
C4_Witness ==
    /\ pc = "buttons"
    /\ clicks_without_new_content = StagnationLimit
    /\ hist.streak = StagnationLimit
    /\ total_clicks > StagnationLimit

\* C5: is_valid_painting_link accepts a reference exactly when it is not
\* empty, resolves to the origin of the target site, contains an item-path
\* marker, is not the catalog root and matches no denylisted segment.
C5_Original ==
    verdict # "none" => (verdict = "accept" <=> SpecValid(in_url))

\* C6: no link whose resolved origin differs from the origin of the target
\* site ever enters the discovered set.
C6_Original ==
    \A u \in scraped_links : Origin(Resolve(u)) = BaseOrigin

\* C7: the discovered set holds one entry per item: two of its entries never
\* resolve to the same absolute URL.
C7_Original ==
    \A u, v \in scraped_links : Resolve(u) = Resolve(v) => u = v

\* C8: insertion is idempotent: inserting a link that is present changes
\* nothing, and a harvest pass over an unchanged container that meets what
\* the pass before met (or follows a pass without fault) adds no link.
C8_Idempotent ==
    [][ /\ \A u \in scraped_links' : Add(scraped_links', u) = scraped_links'
        /\ (hist'.passes = hist.passes + 1 /\ hist.passes >= 1
              /\ (hist'.lastPass = hist.lastPass \/ hist.lastPass = <<{}, {}>>))
              => /\ scraped_links' = scraped_links
                 /\ Cardinality(scraped_links') = Cardinality(scraped_links)
      ]_vars

\* C8 witness: a second pass like the first over a container with links
C8_Witness ==
    hist.passes >= 2 /\ hist.repeated /\ scraped_links # {}

QueryPosition(c) ==
    CASE c.kind = "exact" -> 1
      [] c.kind = "fallback" -> 1 + c.idx
      [] OTHER -> 1 + NFallbacks

\* C10: the locator consults the exact path, then the fallback selectors in
\* list order, then the last resort; it returns the element of the first
\* query that found one, consults no query after it, and raises nothing
\* then; the last resort answers only when no query before it found one.
C10_FirstSuccess ==
    /\ hist.found # NoContainer => (container = hist.found /\ ~hist.locatorRaised)
    /\ container # NoContainer
         => /\ hist.queries = QueryPosition(container)
            /\ container.kind = "fallback" => hist.exact = "notfound"
            /\ container.kind \in {"div", "body"} => hist.found = NoContainer

\* C10 witness: the exact path failed, a fallback selector found an element
\* and the session harvested it
C10_Witness ==
    /\ hist.exact = "notfound"
    /\ container.kind = "fallback"
    /\ hist.harvested

\* C11: a failure to load the initial target page is reported to the caller:
\* after it main does not announce a successful completion.
C11_Original == hist.loadFailed => announced # "success"

\* C12 as stated: when an external interrupt arrives at a step after the
\* page was loaded, finalization persists the discovered set: once the
\* session is over, save_results has written the links discovered so far.
C12_Original ==
    (hist.interruptedAt \notin {"none", "load"} /\ pc \in {"done", "exit"})
      => /\ saved # << >>
         /\ saved[1].json # << >>
         /\ Range(saved[1].json[1].links) = scraped_links

\* C12 as amended: an external interrupt that arrives at a step of the
\* session stops it: no later step runs, the finally branch runs cleanup once,
\* save_results is not called (an interrupt before the save step leaves no
\* output file at all), the discovered links stay in memory only, and main
\* prints the interruption notice, not the success banner.
C12_Amended ==
    hist.interruptedAt # "none"
      => /\ outcome = "interrupted"
         /\ pc \in {"cleanup", "done", "exit"}
         /\ cleaned = (IF pc = "cleanup" THEN 0 ELSE 1)
         /\ hist.interruptedAt # "save" => saved = << >>
         /\ hist.returned < 6
         /\ pc = "exit" => announced = "interrupted"
         /\ pc # "exit" => announced = "none"

\* C12 witness: a session interrupted among its clicks, over with links
\* discovered and nothing written
C12_Witness ==
    /\ pc = "exit"
    /\ hist.interruptedAt = "buttons"
    /\ Cardinality(scraped_links) >= 2
    /\ saved = << >>
    /\ cleaned = 1

\* C13: output is written only at normal finalization: save_results runs at
\* most once, only after page load, container location, initial harvest,
\* pagination run and sweep have all returned, and a session that a fault
\* or an interrupt ends before these five have returned writes nothing.
C13_OnlyAtFinalization ==
    [][ /\ saved' # saved => (pc = "save" /\ saved = << >> /\ hist.returned = 5
                                /\ Len(saved') = 1)
        /\ (hist'.returned = 6 /\ hist.returned # 6)
              => (pc = "save" /\ hist.returned = 5 /\ saved' # saved)
        /\ hist'.returned \in {hist.returned, hist.returned + 1}
        /\ (outcome' \in {"error", "interrupted"} /\ hist'.returned < 5) => saved' = << >>
      ]_vars

\* C13 witness: a session that wrote its output once, after the five steps,
\* and is over
C13_Witness ==
    /\ pc = "exit"
    /\ outcome = "completed"
    /\ hist.returned = 6
    /\ Len(saved) = 1
    /\ scraped_links # {}

\* C14: the record save_results writes has links equal to the discovered
\* set in ascending order without duplicate, total_links equal to the number
\* of entries of links, and the text listing numbers the same links from 1
\* in the same order.
C14_SortedRecord ==
    \A k \in DOMAIN saved :
        /\ saved[k].json # << >>
        /\ LET rec == saved[k].json[1]
           IN  /\ Range(rec.links) = scraped_links
               /\ \A i \in 1..(Len(rec.links) - 1) : StrLess(rec.links[i], rec.links[i + 1])
               /\ \A i, j \in DOMAIN rec.links : rec.links[i] = rec.links[j] => i = j
               /\ rec.total_links = Len(rec.links)
               /\ rec.total_links = Cardinality(scraped_links)
               /\ saved[k].txt # << >>
                     => /\ Len(saved[k].txt[1]) = Len(rec.links)
                        /\ \A i \in DOMAIN rec.links : saved[k].txt[1][i] = <<i, rec.links[i]>>
        /\ outcome = "completed" => saved[k].txt # << >>

\* C14 witness: both files written for a set whose sorted order is not the
\* order of discovery (.../asset/10 comes before .../asset/2)
C14_Witness ==
    /\ outcome = "completed"
    /\ Len(saved) = 1
    /\ saved[1].txt # << >>
    /\ Len(saved[1].json[1].links) >= 10
    /\ saved[1].json[1].links[2] = base_url \o <<"/", "asset", "/", "10">>

\* the place of the first colon of a text that holds one
FirstColon(e) == CHOOSE i \in DOMAIN e : e[i] = ":" /\ \A j \in 1..(i - 1) : e[j] # ":"

\* t is s without its leading and trailing white space
IsTrimOf(t, s) ==
    \E a, b \in 0..Len(s) :
        /\ a + b <= Len(s)
        /\ t = SubSeq(s, a + 1, Len(s) - b)
        /\ \A j \in 1..a : s[j] = " "
        /\ \A j \in (Len(s) - b + 1)..Len(s) : s[j] = " "
        /\ (t = << >> \/ (t[1] # " " /\ t[Len(t)] # " "))

\* the entry e names the field k: it holds a colon and its text before the
\* first colon is k once trimmed
Names(e, k) == ":" \in Range(e) /\ IsTrimOf(k, SubSeq(e, 1, FirstColon(e) - 1))

\* the text of e after its first colon
AfterColon(e) == SubSeq(e, FirstColon(e) + 1, Len(e))

\* the entries (by position) of the last list of a page that name the field k
Setters(pg, k) ==
    IF pg.uls = << >> THEN {}
    ELSE {i \in DOMAIN pg.uls[Len(pg.uls)] : Names(pg.uls[Len(pg.uls)][i], k)}

Latest(S) == CHOOSE i \in S : \A j \in S : j <= i

IndexField == <<"Index">>
UrlField == <<"Page", " ", "URL">>
ImageField == <<"Image", " ", "Filename">>

\* C15: the extraction reads the last list of the page only: a field differs
\* from what a page without any list gives only when an entry of the last
\* list names it, entries of earlier lists set nothing, and the field then
\* holds the trimmed text after the first colon of that entry (the latest
\* such entry), further colons included.
C15_LastBlockOnly ==
    [][ (index' = index + 1 /\ hist'.response.kind = "ok")
          => LET pg == hist'.response.item_page
                 row == rows'[index']
                 bare == extract(index', item_links[index'], ItemPage(pg.image, << >>))
             IN  \A k \in Range(fieldnames) :
                    IF Setters(pg, k) = {} THEN row[k] = bare[k]
                    ELSE IsTrimOf(row[k],
                                  AfterColon(pg.uls[Len(pg.uls)][Latest(Setters(pg, k))]))
      ]_vars

\* C15 witness: a page of three lists whose first names another creator:
\* the row holds the creator and the title of the last list, the title with
\* its inner colon, and no date
C15_Witness ==
    /\ index >= 1
    /\ hist.response.kind = "ok"
    /\ Len(hist.response.item_page.uls) = 3
    /\ rows[index][<<"Creator">>] = <<"Hokusai">>
    /\ rows[index][<<"Title">>] = <<"Wave", ":", " ", "One">>
    /\ rows[index][<<"Date", " ", "Created">>] = << >>

\* C16: every row written, for a fetched item and for a failed one, has
\* exactly the fixed keys; a field that no entry of the metadata list names
\* (index, source link and image file name apart) is empty, the row of a
\* failed item is empty but for index and source link, and a page without
\* any list gives a row whose described fields are all empty.
C16_RecordShape ==
    /\ \A i \in DOMAIN rows :
          /\ DOMAIN rows[i] = Range(fieldnames)
          /\ Cardinality(DOMAIN rows[i]) = Len(fieldnames)
    /\ index >= 1
         => LET row == rows[index]
                resp == hist.response
            IN  \A k \in Range(fieldnames) \ {IndexField, UrlField} :
                   /\ resp.kind # "ok" => row[k] = << >>
                   /\ (resp.kind = "ok" /\ Setters(resp.item_page, k) = {}
                         /\ ~(k = ImageField /\ resp.item_page.image # << >>))
                        => row[k] = << >>
                   /\ (resp.kind = "ok" /\ resp.item_page.uls = << >> /\ k # ImageField)
                        => row[k] = << >>

\* C16 witness: the row of a page that has an image and no list, written
\* after the row of a failed item
C16_Witness ==
    /\ index = 2
    /\ rows[1] = error_metadata(1, item_links[1])
    /\ hist.response.kind = "ok"
    /\ hist.response.item_page.uls = << >>
    /\ rows[2][ImageField] # << >>

\* C17: the pass writes one row per input link, in input order: every turn
\* of the loop appends exactly one row for the next link and goes on to the
\* link after it, whether the item was fetched or failed; the row of a
\* failed item holds its index and its link and nothing else; the pass ends
\* only when every link has its row.
C17_OneRowPerItem ==
    [][ /\ item_links' = item_links
        /\ Len(rows') = index'
        /\ index' # index
             => /\ index' = index + 1
                /\ rows' = Append(rows, rows'[index'])
                /\ pc' = "items"
                /\ hist'.response.kind # "ok"
                     => /\ rows'[index'][IndexField] = <<ToString(index')>>
                        /\ rows'[index'][UrlField] = item_links[index']
                        /\ \A k \in Range(fieldnames) \ {IndexField, UrlField} :
                              rows'[index'][k] = << >>
        /\ pc' = "passed" => (index' = Len(item_links) /\ Len(rows') = Len(item_links))
      ]_vars

\* C17 witness: a pass over two links that is over, the first item failed
\* and the second was fetched and described
C17_Witness ==
    /\ pc = "passed"
    /\ Len(item_links) = 2
    /\ Len(rows) = 2
    /\ rows[1] = error_metadata(1, item_links[1])
    /\ rows[2][UrlField] = item_links[2]
    /\ rows[2][<<"Creator">>] = <<"Hokusai">>

\* a step that executes one advance action of a pagination technique: a
\* click, a scroll move, an arrow key, a wheel event
ClickExecuted == pc = "buttons" /\ total_clicks' = total_clicks + 1
ScrollExecuted == pc = "scroll" /\ pc' = "scroll" /\ current_scroll' # current_scroll
KeyExecuted == pc = "sweep_keys" /\ sweep_i' = sweep_i + 1
WheelExecuted == pc = "sweep_wheel" /\ sweep_i' = sweep_i + 1

\* C18 as stated: in every pagination technique each advance action is
\* followed by a settle delay and by a harvest pass before the next advance
\* action: no advance action is executed while an earlier one is still
\* waiting for its harvest.
C18_Original ==
    [][ (ClickExecuted \/ ScrollExecuted \/ KeyExecuted \/ WheelExecuted)
          => (hist.unharvested = 0 /\ hist'.settle > 0) ]_vars

\* C18 as amended: a click and a scroll move are each followed by a settle
\* delay of 2.5 s and a harvest pass before the next one; an arrow key is
\* followed by a delay of 0.5 s and a wheel event by one of 0.8 s, without
\* any harvest: the container is harvested once after the 20 keys and once
\* after the 10 wheel events.
C18_Amended ==
    [][ /\ (ClickExecuted \/ ScrollExecuted)
             => (hist.unharvested = 0 /\ hist'.unharvested = 0 /\ hist'.settle = 25)
        /\ KeyExecuted
             => /\ hist'.unharvested = sweep_i'
                /\ hist'.settle = 5
                /\ scraped_links' = scraped_links
        /\ WheelExecuted
             => /\ hist'.unharvested = sweep_i'
                /\ hist'.settle = 8
                /\ scraped_links' = scraped_links
        /\ (pc = "sweep_keys" /\ pc' = "sweep_wheel")
             => (hist.unharvested = KeySteps /\ hist'.unharvested = 0)
        /\ (pc = "sweep_wheel" /\ pc' = "sweep_focus")
             => (hist.unharvested = WheelSteps /\ hist'.unharvested = 0)
      ]_vars

\* C18 witness: after clicks that were each harvested, the ten wheel events
\* of the sweep have been sent and none has been followed by a harvest yet
C18_Witness ==
    /\ pc = "sweep_wheel"
    /\ sweep_i = WheelSteps
    /\ hist.unharvested = WheelSteps
    /\ hist.order = <<"controls", "keyboard", "wheel">>

\* C19: navigate_with_buttons executes no click on a control that is
\* disabled at the time of the click, the first click on each control
\* included.
C19_Original == [][ClickExecuted => ~hist.ctlDisabled]_vars

\* an advance action that failed outright: a turn of the click loop that
\* executed no click, a turn of the scroll loop that ended the method before
\* the offset reached the width
ClickFailed ==
    /\ pc = "buttons" /\ pc' = "buttons"
    /\ button_index' = button_index
    /\ total_clicks' = total_clicks
ScrollFailed ==
    /\ pc = "scroll" /\ pc' = "sweep_begin"
    /\ current_scroll < container_width
    /\ outcome' = "running"

\* C20: in the controls and coordinate-scroll strategies a failed advance
\* action raises the stagnation counter by one and the strategy goes on; it
\* is abandoned at a failed action only when the counter has reached the
\* failure tolerance (3), never at a failed action that leaves it below.
C20_Original ==
    [][ /\ ClickFailed
             => /\ clicks_without_new_content' = clicks_without_new_content + 1
                /\ broke' => clicks_without_new_content' >= FailureLimit
        /\ ScrollFailed => clicks_without_new_content' >= FailureLimit
      ]_vars

SweepSteps ==
    <<"sweep_begin", "sweep_keys", "sweep_wheel", "sweep_focus", "sweep_focusing",
      "sweep_pos", "sweep_final">>

SweepRank(p) == CHOOSE i \in DOMAIN SweepSteps : SweepSteps[i] = p

\* a technique of the sweep raises in this step
TechniqueFaults == hist.sweepFault = "none" /\ hist'.sweepFault # "none"

FocusExecuted == pc = "sweep_focusing" /\ sweep_i' = sweep_i + 1
PositionExecuted == pc = "sweep_pos" /\ sweep_i' = sweep_i + 1

C23_BoundedSweep ==
    [][ /\ KeyExecuted => sweep_i < KeySteps
        /\ WheelExecuted => sweep_i < WheelSteps
        /\ FocusExecuted => sweep_i < FocusLimit
        /\ PositionExecuted => (sweep_i < NPositions /\ sweep_i < Len(positions))
        /\ positions = <<0, 25, 50, 75, 100, 50, 0>>
        /\ (pc' \in Range(SweepSteps) /\ pc' # pc)
             => /\ sweep_i' = 0
                /\ IF pc' = "sweep_begin"
                   THEN pc \in {"nav_start", "buttons", "scroll_start", "scroll"}
                   ELSE pc \in Range(SweepSteps) /\ SweepRank(pc) < SweepRank(pc')
        /\ (pc \in Range(SweepSteps) /\ pc' \notin Range(SweepSteps))
             => \/ /\ pc' = "save"
                   /\ pc \in {"sweep_pos", "sweep_final"}
                   /\ pc = "sweep_pos" => sweep_i = NPositions
                   /\ hist'.returned = 5
                   /\ hist.returned # 5
                   /\ hist'.unharvested = 0
                   /\ scraped_links \subseteq scraped_links'
                \/ /\ pc' = "cleanup"
                   /\ outcome' = "interrupted"
      ]_vars

\* C23 witness: after clicks, 20 key steps, 10 wheel events and the focus
\* actions, all seven moves have been executed and the final harvest is next
C23_Witness ==
    /\ pc = "sweep_pos"
    /\ sweep_i = NPositions
    /\ scraped_links # {}
    /\ hist.order = <<"controls", "keyboard", "wheel">>

\* C24: a harvest pass runs every rule of link_selectors, whatever the rules
\* before it produced; a rule whose query raises and an element whose
\* attributes cannot be read are skipped alone: every valid link of every
\* other element matched by any other rule is in the set after the pass,
\* and the pass adds nothing else and removes nothing.
C24_EveryRule ==
    [][ hist'.passes = hist.passes + 1
          => LET f == hist'.lastPass
                 seen == Visible(container, loaded)
                 ran == (1..NSelectors) \ f[1]
                 pairs == {q \in ran \X (seen \ f[2]) : Selects(q[1], Doc.anchors[q[2]])}
             IN  /\ \A q \in pairs : Accepted(Doc.anchors[q[2]]) \subseteq scraped_links'
                 /\ scraped_links \subseteq scraped_links'
                 /\ \A u \in scraped_links' \ scraped_links :
                        \E q \in pairs : u \in Accepted(Doc.anchors[q[2]])
      ]_vars

\* C24 witness: the first pass met a fault (a rule whose query raised or a
\* stale element) and still holds the link of the first rule together with
\* a link that only a later rule reaches
C24_Witness ==
    /\ hist.passes = 1
    /\ hist.lastPass # <<{}, {}>>
    /\ U_abs123 \in scraped_links
    /\ U_relart7 \in scraped_links

\* C25: when the last-resort query finds candidate elements (<div>s that
\* hold a link with 'asset' in its href), the container it returns is one
\* of them, no candidate holds more such links than it does, and every
\* candidate holding as many comes after it in document order.
C25_MaxFirst ==
    /\ container.kind = "div"
         => /\ container.idx \in 1..Len(Doc.divs)
            /\ AssetLinks(container.idx, Doc.init) > 0
            /\ \A k \in 1..Len(Doc.divs) :
                  /\ AssetLinks(k, Doc.init) <= AssetLinks(container.idx, Doc.init)
                  /\ AssetLinks(k, Doc.init) = AssetLinks(container.idx, Doc.init)
                       => k >= container.idx
    /\ (hist.returned = 2 /\ hist.found = NoContainer /\ ~hist.lastFault
          /\ \E k \in 1..Len(Doc.divs) : AssetLinks(k, Doc.init) > 0)
         => container.kind = "div"

\* C25 witness: the last resort chose between two candidates tied at the
\* maximum, and the session harvested the first of them
C25_Witness ==
    /\ container.kind = "div"
    /\ \E k \in 1..Len(Doc.divs) :
          /\ k > container.idx
          /\ AssetLinks(k, Doc.init) = AssetLinks(container.idx, Doc.init)
    /\ \E k \in 1..Len(Doc.divs) :
          AssetLinks(k, Doc.init) \in 1..(AssetLinks(container.idx, Doc.init) - 1)
    /\ hist.harvested

\* C26: any two consecutive item-page fetches of the metadata pass are
\* separated by the 1-second pause, whatever the outcome of the earlier
\* item: a fetch other than the first follows a turn that ended with the
\* pause.
C26_Original == [][(pc = "items" /\ index' = index + 1 /\ index >= 1) => hist.paused]_vars

\* C27: in every row written, 'Index' is the 1-based position of the item
\* in the input and 'Page URL' is the link that was fetched, whatever the
\* entries of the page's metadata list are labelled.
C27_Original ==
    \A i \in DOMAIN rows :
        /\ rows[i][IndexField] = <<ToString(i)>>
        /\ rows[i][UrlField] = item_links[i]

\* C28: every session that starts start_scraping eventually calls cleanup
\* (driver.quit); cleanup runs exactly once, on whichever path the try block
\* was left (completion, a fault that escaped a step, an interrupt), the
\* session is over only after it, and no harvest, advance action or write
\* follows it.
C28_CleanupOnce ==
    /\ [][ /\ cleaned' # cleaned
                => (pc = "cleanup" /\ cleaned = 0 /\ cleaned' = 1 /\ pc' = "done")
           /\ (pc \in TrySteps /\ pc' \notin TrySteps) => pc' = "cleanup"
           /\ pc' \in {"done", "exit"} => cleaned' = 1
           /\ cleaned >= 1
                => /\ scraped_links' = scraped_links
                   /\ loaded' = loaded
                   /\ total_clicks' = total_clicks
                   /\ current_scroll' = current_scroll
                   /\ sweep_i' = sweep_i
                   /\ saved' = saved
                   /\ hist' = hist
         ]_vars
    /\ <>(cleaned = 1)

\* C28 witness: sessions that are over with the browser released once: one
\* was interrupted during its scroll moves
C28_Witness ==
    /\ pc = "exit"
    /\ cleaned = 1
    /\ hist.interruptedAt = "scroll"
    /\ scraped_links # {}

====
